---------------------------- MODULE Spec2Model ----------------------------
(***************************************************************************)
(* The currency-pair risk / position-size calculator of the site: the pair *)
(* normalizer, the instrument parameter table, the rate resolver and the   *)
(* Calculate handler of the two FX-aware LotSizeCalculator components      *)
(* (the dynamic-pairs variant and the static-pairs variant).               *)
(*                                                                         *)
(* JavaScript strings that the code inspects character by character are    *)
(* sequences of one-character strings; JavaScript numbers are exact        *)
(* rationals extended with NaN and the two infinities (binary rounding of  *)
(* IEEE-754 doubles is not modelled).                                      *)
(***************************************************************************)
EXTENDS Integers, Sequences, FiniteSets, TLC

VARIABLES
    variant,      \* which component is mounted: "dynamic" or "static"
    apiKey,       \* process.env.NEXT_PUBLIC_CURRENCYFREAKS_API_KEY is set
    currency,     \* useState("EUR"): account currency
    pair,         \* useState("EURUSD")
    balance,      \* useState("")
    riskPercent,  \* useState("")
    stopLoss,     \* useState("")
    positionSize, \* useState(""): displayed output
    riskAmount,   \* useState(""): displayed output
    pipValue,     \* useState(""): displayed output
    rateNote,     \* useState(""): static variant only
    calcs,        \* the invocations of handleCalculate, one record per slot
    started,      \* number of invocations of handleCalculate so far
    edits,        \* number of field edits made since the first invocation
    arg,          \* harness: the input of the function under check
    res,          \* harness: the last application of a pure function
    conv,         \* harness: one direct call of convertRate
    relay,        \* the newsletter route: one request through POST
    calendar,     \* the dashboard page: the economic-calendar panel
    pairsLoad,    \* dynamic variant: the pair list and its load effect
    newsletter    \* NewsletterForm: its state and the request in flight

vars == <<variant, apiKey, currency, pair, balance, riskPercent, stopLoss,
          positionSize, riskAmount, pipValue, rateNote, calcs, started, edits,
          arg, res, conv, relay, calendar, pairsLoad, newsletter>>

formVars == <<currency, pair, balance, riskPercent, stopLoss>>
outVars == <<positionSize, riskAmount, pipValue>>
envVars == <<variant, apiKey>>
pageVars == <<calendar, pairsLoad, newsletter>>
harnessVars == <<arg, res, conv, relay, pageVars>>

-----------------------------------------------------------------------------
(* Bounds of the model *)

\* separators inserted into a pair text
MaxSlashes == 2
\* invocations of handleCalculate in one behaviour (and slots for them)
MaxCalcs == 2
\* field edits after the first invocation
MaxEdits == 1
\* hide timers of the calendar panel pending at one time
MaxPending == 3
\* submissions of the newsletter form in one behaviour
MaxSubmits == 3

-----------------------------------------------------------------------------
(* Strings *)

\* F applied to the value of e (e is evaluated once)
LetIn(e, F(_)) == CHOOSE r \in {F(x) : x \in {e}} : TRUE

Range(s) == {s[i] : i \in 1..Len(s)}

UpperLetters == <<"A","B","C","D","E","F","G","H","I","J","K","L","M",
                  "N","O","P","Q","R","S","T","U","V","W","X","Y","Z">>
LowerLetters == <<"a","b","c","d","e","f","g","h","i","j","k","l","m",
                  "n","o","p","q","r","s","t","u","v","w","x","y","z">>

\* String.prototype.toUpperCase, one character
UpperChar(c) ==
    IF c \in Range(LowerLetters)
    THEN UpperLetters[CHOOSE i \in 1..26 : LowerLetters[i] = c]
    ELSE c

LowerChar(c) ==
    IF c \in Range(UpperLetters)
    THEN LowerLetters[CHOOSE i \in 1..26 : UpperLetters[i] = c]
    ELSE c

toUpperCase(s) == [i \in 1..Len(s) |-> UpperChar(s[i])]
toLowerCase(s) == [i \in 1..Len(s) |-> LowerChar(s[i])]

\* s.slice(a, b) with 0 <= a <= b: characters a .. b-1 (0-based), clipped
slice(s, a, b) ==
    LET hi == IF b < Len(s) THEN b ELSE Len(s)
    IN  IF a >= hi THEN <<>> ELSE SubSeq(s, a + 1, hi)

startsWith(s, p) == Len(s) >= Len(p) /\ SubSeq(s, 1, Len(p)) = p
endsWith(s, p) ==
    Len(s) >= Len(p) /\ SubSeq(s, Len(s) - Len(p) + 1, Len(s)) = p

\* s.replace(c, ""): a string pattern replaces the FIRST occurrence only
ReplaceFirst(s, c) ==
    IF c \notin Range(s) THEN s
    ELSE LET i == CHOOSE k \in 1..Len(s) :
                      s[k] = c /\ \A j \in 1..(k - 1) : s[j] # c
         IN  SubSeq(s, 1, i - 1) \o SubSeq(s, i + 1, Len(s))

-----------------------------------------------------------------------------
(* Numbers: (n/d) * 10^e exactly, with n/d in lowest terms, d > 0 prime to  *)
(* 10 and n not a multiple of 10 (one form per value), NaN, +-Infinity. The  *)
(* range of a double is kept: a magnitude of 10^309 or more is Infinity, one *)
(* below 10^-324 is 0; rounding to 53 bits is not modelled.                  *)

RECURSIVE GCD(_, _)
GCD(a, b) == IF b = 0 THEN a ELSE GCD(b, a % b)

Abs(x) == IF x < 0 THEN -x ELSE x
Sign(x) == IF x < 0 THEN -1 ELSE 1

RECURSIVE Pow10(_)
Pow10(k) == IF k = 0 THEN 1 ELSE 10 * Pow10(k - 1)

\* the largest and the smallest decimal exponent of a double (Number.MAX_VALUE
\* is about 1.8e308, Number.MIN_VALUE about 4.9e-324)
MaxExp10 == 308
MinExp10 == -324

NaN == [k |-> "nan", n |-> 0, d |-> 1, e |-> 0]
Inf(sgn) == [k |-> "inf", n |-> sgn, d |-> 1, e |-> 0]
Zero == [k |-> "fin", n |-> 0, d |-> 1, e |-> 0]

\* floor(log10(m)) for an integer m > 0
RECURSIVE Log10(_)
Log10(m) == IF m < 10 THEN 0 ELSE 1 + Log10(m \div 10)

\* floor(log10(n/d)) for integers n, d > 0
Order(n, d) ==
    IF n >= d THEN Log10(n \div d) ELSE -(Log10((d - 1) \div n) + 1)

\* the form of (n/d) * 10^e for n, d > 0 prime to each other
RECURSIVE Canon(_, _, _)
Canon(n, d, e) ==
    IF n % 10 = 0 THEN Canon(n \div 10, d, e + 1)
    ELSE IF d % 10 = 0 THEN Canon(n, d \div 10, e - 1)
    ELSE IF d % 2 = 0 THEN Canon(n * 5, d \div 2, e - 1)
    ELSE IF d % 5 = 0 THEN Canon(n * 2, d \div 5, e - 1)
    ELSE [n |-> n, d |-> d, e |-> e]

\* the double that (n/d) * 10^e is, d # 0
FinE(n, d, e) ==
    IF n = 0 THEN Zero
    ELSE LetIn(GCD(Abs(n), Abs(d)), LAMBDA g :
           LetIn(Canon(Abs(n) \div g, Abs(d) \div g, e), LAMBDA c :
             LetIn(Order(c.n, c.d) + c.e, LAMBDA o :
               IF o > MaxExp10 THEN Inf(Sign(n) * Sign(d))
               ELSE IF o < MinExp10 THEN Zero
               ELSE [k |-> "fin", n |-> Sign(n) * Sign(d) * c.n, d |-> c.d,
                     e |-> c.e])))
Fin(n, d) == FinE(n, d, 0)
Int2Num(i) == FinE(i, 1, 0)

\* a * b of JavaScript
Mul(a, b) ==
    IF a.k = "nan" \/ b.k = "nan" THEN NaN
    ELSE IF a.k = "inf" \/ b.k = "inf"
         THEN IF a.n = 0 \/ b.n = 0 THEN NaN
              ELSE Inf(Sign(a.n) * Sign(b.n))
         ELSE FinE(a.n * b.n, a.d * b.d, a.e + b.e)

\* a / b of JavaScript (the sign of a zero is not modelled: x / 0 has the sign of x)
Div(a, b) ==
    IF a.k = "nan" \/ b.k = "nan" THEN NaN
    ELSE IF a.k = "inf"
         THEN IF b.k = "inf" THEN NaN ELSE Inf(Sign(a.n) * Sign(b.n))
         ELSE IF b.k = "inf" THEN Zero
              ELSE IF b.n = 0
                   THEN IF a.n = 0 THEN NaN ELSE Inf(Sign(a.n))
                   ELSE FinE(a.n * b.d, a.d * b.n, a.e - b.e)

\* isNaN(x), isFinite(x) and Number.isFinite(x) on a number
isNaN(x) == x.k = "nan"
isFinite(x) == x.k = "fin"
\* x <= 0 and x > 0: every comparison with NaN is false
LeqZero(x) == x.k # "nan" /\ x.n <= 0
GtZero(x) == x.k # "nan" /\ x.n > 0

\* a value that is a number or null, used as a condition: null, 0 and NaN are falsy
Null == [k |-> "null", n |-> 0, d |-> 1, e |-> 0]
Truthy(x) == x.k \in {"fin", "inf"} /\ x.n # 0

\* the magnitude from which toFixed answers in exponent notation (1e21)
ExpNotation == 21

\* Number.prototype.toFixed(digits): the decimal text, kept as the integer
\* number of 10^-digits units ("12.35" is scaled 1235 with digits 2); ties
\* round away from zero; a text in exponent notation (a number of 1e21 or
\* more, always an integer as a double) is kept as scaled * 10^digits
toFixed(x, digits) ==
    IF x.k = "nan" THEN [k |-> "NaN", scaled |-> 0, digits |-> digits]
    ELSE IF x.k = "inf"
         THEN [k |-> "Infinity", scaled |-> x.n, digits |-> digits]
    ELSE IF x.n = 0 THEN [k |-> "dec", scaled |-> 0, digits |-> digits]
    ELSE LetIn(Order(Abs(x.n), x.d) + x.e, LAMBDA o :
      LetIn(x.e + digits, LAMBDA s :
        IF o >= ExpNotation
        THEN [k |-> "exp", scaled |-> x.n \div x.d, digits |-> x.e]
        ELSE IF o + digits < -1
        THEN [k |-> "dec", scaled |-> 0, digits |-> digits]
        ELSE IF s >= 0
        THEN [k |-> "dec", digits |-> digits,
              scaled |-> Sign(x.n) *
                 ((2 * Abs(x.n) * Pow10(s) + x.d) \div (2 * x.d))]
        ELSE [k |-> "dec", digits |-> digits,
              scaled |-> Sign(x.n) *
                 ((2 * Abs(x.n) + x.d * Pow10(-s)) \div (2 * x.d * Pow10(-s)))]))

Digits == <<"0","1","2","3","4","5","6","7","8","9">>
IsDigit(c) == c \in Range(Digits)
DigitVal(c) == (CHOOSE i \in 1..10 : Digits[i] = c) - 1

\* index of the last character of the run of digits that starts at i (i - 1 if none)
RECURSIVE DigitsEnd(_, _)
DigitsEnd(s, i) ==
    IF i <= Len(s) /\ IsDigit(s[i]) THEN DigitsEnd(s, i + 1) ELSE i - 1

\* the integer written by the digits s[i..j] (0 for an empty run)
RECURSIVE DigitsVal(_, _, _)
DigitsVal(s, i, j) ==
    IF j < i THEN 0 ELSE DigitsVal(s, i, j - 1) * 10 + DigitVal(s[j])

RECURSIVE TrimLeft(_)
TrimLeft(s) == IF s # <<>> /\ s[1] = " " THEN TrimLeft(Tail(s)) ELSE s

InfinityText == <<"I","n","f","i","n","i","t","y">>

\* the exponent part that starts at index k of t (0 when there is none)
Exponent(t, k) ==
    LetIn(IF k + 1 <= Len(t) /\ t[k + 1] \in {"+", "-"} THEN k + 2 ELSE k + 1,
      LAMBDA es :
        LetIn(DigitsEnd(t, es), LAMBDA ee :
          IF k <= Len(t) /\ t[k] \in {"e", "E"} /\ ee >= es
          THEN (IF t[es - 1] = "-" THEN -1 ELSE 1) * DigitsVal(t, es, ee)
          ELSE 0))

\* the decimal literal that starts at index p of t, with sign sg
Literal(t, p, sg) ==
    LetIn(DigitsEnd(t, p), LAMBDA ie :
      LetIn(ie + 1 <= Len(t) /\ t[ie + 1] = ".", LAMBDA hasDot :
        LetIn(IF hasDot THEN DigitsEnd(t, ie + 2) ELSE ie + 1, LAMBDA fe :
          LetIn([nInt |-> ie - p + 1,
                 nFrac |-> IF hasDot THEN fe - (ie + 1) ELSE 0,
                 mant |-> DigitsVal(t, p, ie),
                 frac |-> IF hasDot THEN DigitsVal(t, ie + 2, fe) ELSE 0,
                 expo |-> Exponent(t, IF hasDot THEN fe + 1 ELSE ie + 1)],
            LAMBDA m :
              IF m.nInt + m.nFrac = 0 THEN NaN
              ELSE FinE(sg * (m.mant * Pow10(m.nFrac) + m.frac), Pow10(m.nFrac),
                        m.expo)))))

\* parseFloat(text): leading blanks, a sign, then "Infinity" or the longest
\* decimal literal (digits, fraction, exponent); anything after it is ignored;
\* NaN when no literal starts the text
parseFloat(text) ==
    LetIn(TrimLeft(text), LAMBDA t :
      LetIn(IF t # <<>> /\ t[1] \in {"+", "-"} THEN 2 ELSE 1, LAMBDA p :
        LetIn(IF t # <<>> /\ t[1] = "-" THEN -1 ELSE 1, LAMBDA sg :
          IF startsWith(slice(t, p - 1, Len(t)), InfinityText) THEN Inf(sg)
          ELSE Literal(t, p, sg))))

-----------------------------------------------------------------------------
(* Pair normalizer and instrument parameter table (module-level helpers) *)

Slash == "/"

EUR == <<"E","U","R">>
USD == <<"U","S","D">>
JPY == <<"J","P","Y">>
XAU == <<"X","A","U">>
XAG == <<"X","A","G">>
WTI == <<"W","T","I">>
BTC == <<"B","T","C">>
ETH == <<"E","T","H">>

\* an Error object: the message template and the values interpolated into it
Error(message, args) == [message |-> message, args |-> args]
NoError == Error("", <<>>)
PairError == Error("Pair must be like 'EURUSD' or 'EUR/USD'", <<>>)

normalizePair(p) == toUpperCase(ReplaceFirst(p, Slash))

\* a faulty variant (parsePair: only texts longer than 6 characters are refused), against which the property is tested
parsePairAtMost6(p) ==
    LetIn(normalizePair(p), LAMBDA s :
      IF Len(s) > 6
      THEN [ok |-> FALSE, error |-> PairError, base |-> <<>>, quote |-> <<>>]
      ELSE [ok |-> TRUE, error |-> NoError,
            base |-> slice(s, 0, 3), quote |-> slice(s, 3, 6)])

\* parsePair: ok = FALSE stands for the throw
parsePair(p) ==
    LetIn(normalizePair(p), LAMBDA s :
      IF Len(s) # 6
      THEN [ok |-> FALSE, error |-> PairError, base |-> <<>>, quote |-> <<>>]
      ELSE [ok |-> TRUE, error |-> NoError,
            base |-> slice(s, 0, 3), quote |-> slice(s, 3, 6)])

pipSizeFor(p) ==
    LetIn(normalizePair(p), LAMBDA s :
      IF endsWith(s, JPY) THEN Fin(1, 100)
      ELSE IF startsWith(s, XAU) THEN Fin(1, 100)
      ELSE IF startsWith(s, XAG) THEN Fin(1, 100)
      ELSE IF startsWith(s, WTI) THEN Fin(1, 100)
      ELSE IF startsWith(s, BTC) THEN Int2Num(1)
      ELSE IF startsWith(s, ETH) THEN Int2Num(1)
      ELSE Fin(1, 10000))

\* a faulty variant (contractSizeFor: a JPY suffix decides first, as for the pip size), against which the property is tested
contractSizeForJpyFirst(p) ==
    LetIn(normalizePair(p), LAMBDA s :
      IF endsWith(s, JPY) THEN Int2Num(100000)
      ELSE IF startsWith(s, XAU) THEN Int2Num(100)
      ELSE IF startsWith(s, XAG) THEN Int2Num(5000)
      ELSE IF startsWith(s, WTI) THEN Int2Num(1000)
      ELSE IF startsWith(s, BTC) THEN Int2Num(1)
      ELSE IF startsWith(s, ETH) THEN Int2Num(1)
      ELSE Int2Num(100000))

contractSizeFor(p) ==
    LetIn(normalizePair(p), LAMBDA s :
      IF startsWith(s, XAU) THEN Int2Num(100)
      ELSE IF startsWith(s, XAG) THEN Int2Num(5000)
      ELSE IF startsWith(s, WTI) THEN Int2Num(1000)
      ELSE IF startsWith(s, BTC) THEN Int2Num(1)
      ELSE IF startsWith(s, ETH) THEN Int2Num(1)
      ELSE Int2Num(100000))

-----------------------------------------------------------------------------
(* Rate source: what one remote call can come back with *)

NoRates == [c \in {} |-> <<>>]

\* fetch rejects (network error)
NetErr == [kind |-> "neterr", rates |-> NoRates, date |-> ""]
\* res.ok is false (non-2xx status)
HttpErr == [kind |-> "http", rates |-> NoRates, date |-> ""]
\* res.json() rejects (unparseable body)
BadJson == [kind |-> "badjson", rates |-> NoRates, date |-> ""]
\* a JSON body without a rates object
NoRatesBody == [kind |-> "norates", rates |-> NoRates, date |-> ""]
\* a JSON body whose rates object is the table t (code -> numeric text)
OkBody(t) == [kind |-> "ok", rates |-> t, date |-> "2025-01-01"]

\* texts an entry of the table can hold
T150 == <<"1","5","0">>
T09 == <<"0",".","9">>
TZero == <<"0">>
TNeg150 == <<"-","1","5","0">>
TNeg09 == <<"-","0",".","9">>
TAbc == <<"a","b","c">>
TInfinity == InfinityText
T1eNeg310 == <<"1","e","-","3","1","0">>

RateCodes == {USD, EUR, JPY}
RateEntries == {T150, T09, TZero, TNeg150, TAbc, TInfinity, T1eNeg310}
\* a table of plausible rates, and the same table with every sign flipped
GoodTable == [c \in RateCodes |-> IF c = USD THEN <<"1">> ELSE IF c = EUR THEN T09 ELSE T150]
NegTable == [c \in RateCodes |-> IF c = USD THEN <<"1">> ELSE IF c = EUR THEN TNeg09 ELSE TNeg150]
Without(t, c) == [d \in DOMAIN t \ {c} |-> t[d]]
\* the good table, with at most one entry replaced or missing
RateTables ==
    {GoodTable, NegTable, NoRates}
       \cup {[GoodTable EXCEPT ![c] = e] : c \in RateCodes, e \in RateEntries}
       \cup {Without(GoodTable, c) : c \in RateCodes}
Responses == {NetErr, HttpErr, BadJson, NoRatesBody} \cup {OkBody(t) : t \in RateTables}

-----------------------------------------------------------------------------
(* Rate resolver: fetchExchangeRate and convertRate *)

One == Int2Num(1)

NoReq == [base |-> <<>>, quote |-> <<>>, keyed |-> FALSE]

\* fetchExchangeRate up to its fetch: the API key check (dynamic variant), then
\* parsePair, both outside the try block; st = "throw" is the rejection
FetchStart(v, key, pairSymbol) ==
    IF v = "dynamic" /\ ~key
    THEN [st |-> "throw", error |-> Error("Missing API key", <<>>), req |-> NoReq]
    ELSE LetIn(parsePair(pairSymbol), LAMBDA pp :
           IF ~pp.ok
           THEN [st |-> "throw", error |-> pp.error, req |-> NoReq]
           ELSE [st |-> "sent", error |-> NoError,
                 req |-> [base |-> pp.base, quote |-> pp.quote, keyed |-> key]])

\* parseFloat(rates[c]): a missing code is parseFloat(undefined)
RateEntry(resp, c) ==
    IF c \in DOMAIN resp.rates THEN parseFloat(resp.rates[c]) ELSE NaN

\* a faulty variant (the cross rate upside down), against which the property
\* is tested
AnchoredRateInverted(base, quote, usdToBase, usdToQuote) ==
    IF base = USD THEN usdToQuote
    ELSE IF quote = USD THEN Div(One, usdToBase)
    ELSE Div(usdToBase, usdToQuote)

\* the rate of the table, by USD anchoring
AnchoredRate(base, quote, usdToBase, usdToQuote) ==
    IF base = USD THEN usdToQuote
    ELSE IF quote = USD THEN Div(One, usdToBase)
    ELSE Div(usdToQuote, usdToBase)

\* fetchExchangeRate from the response on: the try block; Null is the caught error
fetchRate(v, base, quote, resp) ==
    IF resp.kind # "ok" THEN Null
    ELSE IF v = "dynamic"
    THEN LetIn(IF base = USD THEN One ELSE RateEntry(resp, base), LAMBDA usdToBase :
           LetIn(IF quote = USD THEN One ELSE RateEntry(resp, quote), LAMBDA usdToQuote :
             IF ~isFinite(usdToBase) \/ ~isFinite(usdToQuote) THEN Null
             ELSE AnchoredRate(base, quote, usdToBase, usdToQuote)))
    ELSE LetIn(RateEntry(resp, base), LAMBDA usdToBase :
           LetIn(RateEntry(resp, quote), LAMBDA usdToQuote :
             IF ~isFinite(usdToBase) \/ ~isFinite(usdToQuote)
                \/ LeqZero(usdToBase) \/ LeqZero(usdToQuote) THEN Null
             ELSE AnchoredRate(base, quote, usdToBase, usdToQuote)))

\* the static variant's setRateNote, reached when the try block did not throw
NoNote == [pair |-> <<>>, rate |-> toFixed(NaN, 0), asOf |-> ""]
fetchNote(v, base, quote, resp) ==
    LetIn(fetchRate(v, base, quote, resp), LAMBDA r :
      IF v = "static" /\ r # Null
      THEN [pair |-> normalizePair(base \o quote), rate |-> toFixed(r, 6),
            asOf |-> resp.date]
      ELSE NoNote)

\* convertRate's test of a lookup: direct && Number.isFinite(direct) && direct > 0
Usable(r) == Truthy(r) /\ isFinite(r) /\ GtZero(r)

\* one call of convertRate: pc is where it stands, reqs the remote requests it
\* has issued so far, replies the responses they got, value what it returned,
\* error what it threw
IdleConv ==
    [pc |-> "idle", from |-> <<>>, to |-> <<>>, reqs |-> <<>>, replies |-> <<>>,
     value |-> Null, error |-> NoError]

\* a faulty variant (convertRate: no shortcut for equal codes), against which the property is tested
convertRateAlwaysFetch(v, key, fromCcy, toCcy) ==
    LetIn([IdleConv EXCEPT !.from = fromCcy, !.to = toCcy], LAMBDA c :
      LetIn(FetchStart(v, key, fromCcy \o toCcy), LAMBDA f :
        IF f.st = "throw" THEN [c EXCEPT !.pc = "thrown", !.error = f.error]
        ELSE [c EXCEPT !.pc = "direct", !.reqs = <<f.req>>]))

\* convertRate up to its first await
convertRate(v, key, fromCcy, toCcy) ==
    LetIn([IdleConv EXCEPT !.from = fromCcy, !.to = toCcy], LAMBDA c :
      IF fromCcy = toCcy THEN [c EXCEPT !.pc = "returned", !.value = One]
      ELSE LetIn(FetchStart(v, key, fromCcy \o toCcy), LAMBDA f :
             IF f.st = "throw" THEN [c EXCEPT !.pc = "thrown", !.error = f.error]
             ELSE [c EXCEPT !.pc = "direct", !.reqs = <<f.req>>]))

\* convertRate resumed by the response to its outstanding request
RateError(fromCcy, toCcy) ==
    Error("No FX conversion available for ${fromCcy}->${toCcy}", <<fromCcy, toCcy>>)

\* a faulty variant (the inverse rate is returned as it is), against which
\* the property is tested
convertResumeInverseRaw(v, key, c0, resp) ==
    LetIn(fetchRate(v, c0.reqs[Len(c0.reqs)].base, c0.reqs[Len(c0.reqs)].quote, resp),
      LAMBDA r :
        LetIn([c0 EXCEPT !.replies = Append(@, resp)], LAMBDA c :
          IF c.pc = "direct"
          THEN IF Usable(r) THEN [c EXCEPT !.pc = "returned", !.value = r]
               ELSE LetIn(FetchStart(v, key, c.to \o c.from), LAMBDA f :
                      IF f.st = "throw"
                      THEN [c EXCEPT !.pc = "thrown", !.error = f.error]
                      ELSE [c EXCEPT !.pc = "inverse", !.reqs = Append(@, f.req)])
          ELSE IF Usable(r)
               THEN [c EXCEPT !.pc = "returned", !.value = r]
               ELSE [c EXCEPT !.pc = "thrown", !.error = RateError(c.from, c.to)]))

convertResume(v, key, c0, resp) ==
    LetIn(fetchRate(v, c0.reqs[Len(c0.reqs)].base, c0.reqs[Len(c0.reqs)].quote, resp),
      LAMBDA r :
        LetIn([c0 EXCEPT !.replies = Append(@, resp)], LAMBDA c :
          IF c.pc = "direct"
          THEN IF Usable(r) THEN [c EXCEPT !.pc = "returned", !.value = r]
               ELSE LetIn(FetchStart(v, key, c.to \o c.from), LAMBDA f :
                      IF f.st = "throw"
                      THEN [c EXCEPT !.pc = "thrown", !.error = f.error]
                      ELSE [c EXCEPT !.pc = "inverse", !.reqs = Append(@, f.req)])
          ELSE IF Usable(r)
               THEN [c EXCEPT !.pc = "returned", !.value = Div(One, r)]
               ELSE [c EXCEPT !.pc = "thrown", !.error = RateError(c.from, c.to)]))

convertNote(v, c, resp) ==
    LET q == c.reqs[Len(c.reqs)] IN fetchNote(v, q.base, q.quote, resp)

\* harness: nothing applied yet; op names the function applied to in, fed
\* tells that in is the output of normalizePair on arg
NoRes ==
    [op |-> "none", in |-> <<>>, fed |-> FALSE, text |-> <<>>,
     parsed |-> [ok |-> FALSE, error |-> NoError, base |-> <<>>, quote |-> <<>>],
     num |-> NaN]

-----------------------------------------------------------------------------
(* app/api/newsletter/route.ts: POST relays one subscription to the form
   endpoint of the mailing service *)

\* the email member of the request body: a string, or undefined when absent
NoEmail == [k |-> "undefined", s |-> ""]

Str(s) == [k |-> "string", s |-> s]

RelayEmails ==
    {NoEmail, Str(""), Str("ada@example.com"), Str("bob@example.com"),
     Str("eve@example.org"), Str("not an address"), Str("a b&c=d")}

\* what req.json() finds: a body that is not JSON, the JSON null, an object
RelayBodies ==
    {[kind |-> "unreadable", email |-> NoEmail],
     [kind |-> "null", email |-> NoEmail]} \cup
    {[kind |-> "object", email |-> e] : e \in RelayEmails}

RelayStatuses == {200, 201, 204, 299, 300, 302, 400, 404, 422, 429, 500, 503}

\* what the fetch of the endpoint ends with: a rejection or a response
NetworkError == [kind |-> "rejected", status |-> 0]

RelayReplies ==
    {NetworkError} \cup {[kind |-> "response", status |-> st] : st \in RelayStatuses}

\* response.ok
Ok(reply) ==
    reply.kind = "response" /\ reply.status >= 200 /\ reply.status <= 299

\* URLSearchParams turns every value into a string
ToFormValue(email) == IF email.k = "undefined" THEN "undefined" ELSE email.s

formData(email) ==
    <<[name |-> "EMAIL", value |-> ToFormValue(email)],
      [name |-> "email_address_check", value |-> ""],
      [name |-> "locale", value |-> "en"]>>

SibformsUrl ==
    "https://e2c25aa6.sibforms.com/serve/MUIFAG_OYAHrqC4-s-344lPokNpv22D0uyD-cRSZWvWpHs9AlNt2jnByYLR9xKHZX8CNEo0NSotqGM070K0DO06IeOF0sQQ9GZ0k8J_3OKj7bzSjrS8gb76eTv28q8HvOJLUCfBMqCkTvGCqiajoHZDMFIc47hm8IsAjAl47Tp-a_RG1jY7HIyoEcYPdtE9BvAxSnx3ReTrAxM9i"

UpstreamPost(email) ==
    [url |-> SibformsUrl, method |-> "POST",
     contentType |-> "application/x-www-form-urlencoded",
     form |-> formData(email)]

NoAnswer == [status |-> 0, success |-> FALSE]

SuccessAnswer == [status |-> 200, success |-> TRUE]

FailureAnswer == [status |-> 500, success |-> FALSE]

\* a faulty variant (any response counts as accepted), against which the
\* property is tested
RelayAnswerAnyResponse(reply) ==
    IF reply.kind = "response" THEN SuccessAnswer ELSE FailureAnswer

\* the answer once the fetch has ended: a rejection and the error thrown on
\* a response that is not ok both end in the catch block
RelayAnswer(reply) == IF Ok(reply) THEN SuccessAnswer ELSE FailureAnswer

IdleRelay ==
    [pc |-> "idle", body |-> [kind |-> "none", email |-> NoEmail],
     posts |-> <<>>, reply |-> [kind |-> "none", status |-> 0],
     answer |-> NoAnswer]

-----------------------------------------------------------------------------
(* app/dashboard/page.tsx: the economic-calendar panel *)

\* an event of the calendar; country "" stands for a missing country
Event(id, impact, country) == [id |-> id, impact |-> impact, country |-> country]

\* what /api/economic-events can answer with
EventLists ==
    {<<Event("e1", "High", "US"), Event("e2", "Medium", "EU"), Event("e3", "Low", "")>>,
     <<Event("e1", "High", "EU"), Event("e2", "Holiday", "US")>>}

\* the state of the page before its events have loaded; timers is the queue
\* of pending 300 ms timers, oldest first, each holding the id it will hide
IdleCalendar ==
    [events |-> <<>>, loading |-> TRUE,
     showHigh |-> TRUE, showMedium |-> TRUE, showLow |-> TRUE,
     selectedCurrencies |-> {}, hiddenItems |-> {}, timers |-> <<>>]

availableCurrencies(st) ==
    {st.events[i].country : i \in DOMAIN st.events} \ {""}

isVisible(st, e) ==
    IF e.impact = "High" /\ ~st.showHigh THEN FALSE
    ELSE IF e.impact = "Medium" /\ ~st.showMedium THEN FALSE
    ELSE IF e.impact = "Low" /\ ~st.showLow THEN FALSE
    ELSE IF st.selectedCurrencies # {} /\ e.country # ""
            /\ e.country \notin st.selectedCurrencies THEN FALSE
    ELSE TRUE

\* the ids of the events, in order, that the filters of st hide
RECURSIVE HideQueue(_, _)
HideQueue(st, i) ==
    IF i > Len(st.events) THEN <<>>
    ELSE (IF isVisible(st, st.events[i]) THEN <<>> ELSE <<st.events[i].id>>)
         \o HideQueue(st, i + 1)

\* the effect on [showHigh, showMedium, showLow, selectedCurrencies, events]:
\* a visible event is taken out of hiddenItems at once, a hidden one gets a
\* timer that will add it
HiddenItemsEffect(st) ==
    [st EXCEPT
       !.hiddenItems = @ \ {st.events[i].id :
                              i \in {j \in DOMAIN st.events : isVisible(st, st.events[j])}},
       !.timers = @ \o HideQueue(st, 1)]

\* the callback of the oldest timer: setHiddenItems(prev => new Set(prev).add(id))
TimerFired(st) ==
    [st EXCEPT !.hiddenItems = @ \cup {Head(st.timers)}, !.timers = Tail(@)]

-----------------------------------------------------------------------------
(* Dynamic pairs: composePairsFrom and the load of the supported currencies *)

GBP == <<"G","B","P">>
AUD == <<"A","U","D">>
CAD == <<"C","A","D">>
CHF == <<"C","H","F">>
NZD == <<"N","Z","D">>
PLN == <<"P","L","N">>

PREFERRED_BASES == <<EUR, USD, GBP, JPY, AUD, CAD, CHF, NZD, XAU, XAG, BTC, ETH>>

popularCrossPairsDefs ==
    {<<EUR, GBP>>, <<EUR, JPY>>, <<GBP, JPY>>, <<EUR, AUD>>, <<EUR, CAD>>,
     <<EUR, CHF>>, <<EUR, NZD>>, <<GBP, AUD>>, <<GBP, CAD>>, <<GBP, CHF>>,
     <<GBP, NZD>>, <<AUD, JPY>>, <<CAD, JPY>>, <<CHF, JPY>>, <<NZD, JPY>>}

\* the order of Array.prototype.sort on texts of upper-case letters
CharCode(c) == CHOOSE i \in 1..26 : UpperLetters[i] = c

TextLess(a, b) ==
    \E k \in 1..Len(b) :
       /\ k - 1 <= Len(a)
       /\ \A j \in 1..(k - 1) : a[j] = b[j]
       /\ k > Len(a) \/ CharCode(a[k]) < CharCode(b[k])

RECURSIVE Sorted(_)
Sorted(S) ==
    IF S = {} THEN <<>>
    ELSE LetIn(CHOOSE x \in S : \A y \in S \ {x} : TextLess(x, y), LAMBDA least :
           <<least>> \o Sorted(S \ {least}))

\* composePairsFrom: the codes are a set, the result is sorted, without
\* duplicates
composePairsFrom(codes) ==
    LET avail == {c \in Range(PREFERRED_BASES) : c \in codes}
        fxMajors ==
            UNION {{c \o USD, USD \o c} :
                     c \in {d \in {EUR, GBP, AUD, NZD, CAD, CHF, JPY} :
                              d # USD /\ d \in avail /\ USD \in avail}}
        crosses ==
            {d[1] \o d[2] :
               d \in {e \in popularCrossPairsDefs : e[1] \in avail /\ e[2] \in avail}}
        metalsCrypto ==
            {c \o USD : c \in {d \in {XAU, XAG, BTC, ETH} : d \in avail /\ USD \in avail}}
    IN  Sorted(fxMajors \cup crosses \cup metalsCrypto)

\* the list set in the catch block
FallbackPairs ==
    <<EUR \o USD, GBP \o USD, USD \o JPY, AUD \o USD, USD \o CAD, USD \o CHF,
      NZD \o USD, EUR \o GBP, EUR \o JPY, GBP \o JPY, XAU \o USD, XAG \o USD,
      BTC \o USD, ETH \o USD>>

\* the keys of supportedCurrenciesMap in the responses; the empty set is also
\* a body without that member
CodeSets == SUBSET {EUR, JPY, XAU, PLN}

\* how the fetch ends: a rejection with or without a message, a status that
\* is not ok, or a response whose body is still to be read
FetchOutcomes ==
    {[kind |-> "rejected", message |-> "Failed to fetch"],
     [kind |-> "rejected", message |-> ""],
     [kind |-> "http", message |-> "Failed to fetch supported currencies"],
     [kind |-> "ok", message |-> ""]}

\* how res.json() ends: a rejection, or a body with these codes
JsonOutcomes ==
    {[kind |-> "badjson", message |-> "Unexpected token", codes |-> {}]} \cup
    {[kind |-> "body", message |-> "", codes |-> S] : S \in CodeSets}

\* the component after its first render, with the effect's fetch in flight:
\* pair is the value the effect closed over, pairsError "" is null
IdleLoad ==
    [pc |-> "fetch", mounted |-> TRUE, cancelled |-> FALSE, closurePair |-> EUR \o USD,
     pairs |-> <<>>, loadingPairs |-> TRUE, pairsError |-> ""]

\* a faulty variant (the finally block without its test of cancelled), against
\* which the property is tested
LoadFinallyUnguarded(st) ==
    [st EXCEPT !.pc = "done", !.loadingPairs = FALSE]

\* the finally block
LoadFinally(st) ==
    IF st.cancelled THEN [st EXCEPT !.pc = "done"]
    ELSE [st EXCEPT !.pc = "done", !.loadingPairs = FALSE]

\* a faulty variant (no fallback for a selected pair that is not in the list),
\* against which the property is tested
LoadSuccessKeepsPair(st, p, codes) ==
    LetIn(composePairsFrom(codes \cup {USD}), LAMBDA composed :
      IF st.cancelled THEN [load |-> LoadFinally(st), pair |-> p]
      ELSE [load |-> LoadFinally([st EXCEPT !.pairs = composed]), pair |-> p])

\* the try block after res.json(): p is the pair selected at that moment
LoadSuccess(st, p, codes) ==
    LetIn(composePairsFrom(codes \cup {USD}), LAMBDA composed :
      IF st.cancelled THEN [load |-> LoadFinally(st), pair |-> p]
      ELSE [load |-> LoadFinally([st EXCEPT !.pairs = composed]),
            pair |-> IF st.closurePair \in Range(composed) THEN p
                     ELSE IF EUR \o USD \in Range(composed) THEN EUR \o USD
                     ELSE IF composed # <<>> THEN composed[1]
                     ELSE EUR \o USD])

\* the catch block
LoadCatch(st, message) ==
    IF st.cancelled THEN LoadFinally(st)
    ELSE LoadFinally([st EXCEPT
           !.pairsError = IF message # "" THEN message ELSE "Could not load pairs",
           !.pairs = FallbackPairs])

-----------------------------------------------------------------------------
(* NewsletterForm: the subscription form and its handleSubmit *)

\* texts of the email input; the browser submits the form only with an address
FormEmails == {"", "ada@example.com", "bob@example.com", "not an address"}

ValidEmail(t) == t \in {"ada@example.com", "bob@example.com"}

\* the form after its first render; inflight holds the EMAIL of each request
\* that has not settled, reply the outcome of the last one that has
IdleForm ==
    [email |-> "", status |-> "idle", isSubmitting |-> FALSE,
     inflight |-> <<>>, reply |-> [kind |-> "none", status |-> 0],
     submissions |-> 0]

\* handleSubmit up to its await
FormSubmitted(st) ==
    [st EXCEPT !.isSubmitting = TRUE, !.status = "idle",
               !.inflight = Append(@, st.email), !.submissions = @ + 1]

\* a faulty variant (the email is cleared in the finally block), against which
\* the property is tested
FormSettledClearsAlways(st, reply) ==
    [st EXCEPT !.status = IF Ok(reply) THEN "success" ELSE "error",
               !.email = "",
               !.isSubmitting = FALSE, !.inflight = Tail(@), !.reply = reply]

\* handleSubmit from the end of its fetch: try, catch and finally
FormSettled(st, reply) ==
    [st EXCEPT !.status = IF Ok(reply) THEN "success" ELSE "error",
               !.email = IF Ok(reply) THEN "" ELSE @,
               !.isSubmitting = FALSE, !.inflight = Tail(@), !.reply = reply]

-----------------------------------------------------------------------------
(* LotSizeCalculator: the component's state and its Calculate handler *)

EURUSD == EUR \o USD
USDJPY == USD \o JPY

\* values the fields are set to by the edit actions: options of the account
\* select, options of the pair select, and texts a number input hands over
\* (empty, or a decimal literal with an optional exponent)
TEmpty == <<>>
TNeg5 == <<"-","5">>
T1000 == <<"1","0","0","0">>
T2 == <<"2">>
T50 == <<"5","0">>
EURUS == <<"E","U","R","U","S">>
USDSlashSlashJPY == <<"U","S","D","/","/","J","P","Y">>
T1e999 == <<"1","e","9","9","9">>
AccountChoices == {EUR, USD}
PairChoices == {EURUSD, USDJPY, XAU \o USD}
BalanceChoices == {TEmpty, T1000, T1e999}
RiskChoices == {TEmpty, T2, T150}
StopChoices == {TEmpty, T50, T1e999}

\* requests handleCalculate is run on in RequestSpec: every kind of numeric
\* text (missing, zero, negative, positive, too large for a double) and,
\* beyond the options of the select, pair texts of other shapes (5 characters,
\* lower case, one and several separators)
EurSlashUsdLower == <<"e","u","r","/","u","s","d">>
ThreeSlashes == <<"/","/","U","/","S","J","P","Y">>
RequestAccounts == {EUR, USD, JPY}
RequestPairs ==
    PairChoices \cup {EURUS, USDSlashSlashJPY, EurSlashUsdLower, ThreeSlashes}
RequestBalances == {TEmpty, TZero, TNeg5, T1000, T1e999}
RequestRisks == {TEmpty, TNeg5, T2}
RequestStops == {TEmpty, TZero, T50, T1e999}

\* what the rate source answers in the component's runs
CalcResponses == {NetErr, OkBody(GoodTable), OkBody(NegTable)}

\* a displayed output: `${x.toFixed(2)} ${unit}`; Blank is the initial ""
Shown(x, unit) == [text |-> toFixed(x, 2), unit |-> unit]
Blank == [text |-> [k |-> "", scaled |-> 0, digits |-> 0], unit |-> ""]
Lots == "lots"

InputError == Error("Please fill all fields with valid positive numbers", <<>>)
RiskPerLotError == Error("Calculated risk per lot is invalid.", <<>>)

\* one invocation of handleCalculate: the state it closed over (cur, pair and
\* the three parsed numbers), its locals, its call of convertRate, and how it
\* ended: outcome "ok" wrote the outputs, "failed" alerted error
IdleCalc ==
    [pc |-> "idle", cur |-> <<>>, pair |-> <<>>,
     balanceNum |-> NaN, riskPercentNum |-> NaN, stopLossNum |-> NaN,
     quote |-> <<>>, conv |-> IdleConv, quoteToAccount |-> Null,
     riskAmt |-> NaN, pipValuePerLot |-> NaN, lots |-> NaN,
     outcome |-> "none", error |-> NoError]

Slots == 1..MaxCalcs

\* the guard of handleCalculate
InvalidNumbers(b, r, sl) ==
    \/ isNaN(b) \/ isNaN(r) \/ isNaN(sl)
    \/ LeqZero(b) \/ LeqZero(r) \/ LeqZero(sl)

\* a faulty variant (RiskAmt: the percentage taken as a fraction), against which the property is tested
RiskAmtNoPercent(b, r) == Mul(b, r)

\* 1) risk amount in account currency
RiskAmt(b, r) == Mul(b, Div(r, Int2Num(100)))

\* a faulty variant (PipValuePerLot: doubled once a pip value is displayed),
\* against which the property is tested
PipValuePerLotAfterDisplay(cleanPair, q) ==
    Mul(Mul(Mul(pipSizeFor(cleanPair), q), contractSizeFor(cleanPair)),
        IF pipValue = Blank THEN One ELSE Int2Num(2))

\* 2)-4) per-lot pip value in account currency
PipValuePerLot(cleanPair, q) ==
    Mul(Mul(pipSizeFor(cleanPair), q), contractSizeFor(cleanPair))

\* the rest of handleCalculate once quoteToAccount is known
Settle(c, q) ==
    LetIn(PipValuePerLot(c.pair, q), LAMBDA pv :
      LetIn(Mul(c.stopLossNum, pv), LAMBDA riskPerLot :
        IF ~isFinite(riskPerLot) \/ LeqZero(riskPerLot)
        THEN [c EXCEPT !.pc = "done", !.quoteToAccount = q, !.outcome = "failed",
                       !.error = RiskPerLotError]
        ELSE [c EXCEPT !.pc = "done", !.quoteToAccount = q, !.outcome = "ok",
                       !.pipValuePerLot = pv,
                       !.lots = Div(c.riskAmt, riskPerLot)]))

\* the catch block
Caught(c, e) == [c EXCEPT !.pc = "done", !.outcome = "failed", !.error = e]

\* a faulty variant (the conversion asked for account -> quote), against which
\* the property is tested
PursueAccountToQuote(c0, cleanPair, v, key) ==
    LetIn(parsePair(cleanPair), LAMBDA pp :
      IF ~pp.ok THEN Caught([c0 EXCEPT !.pair = cleanPair], pp.error)
      ELSE LetIn([c0 EXCEPT !.pair = cleanPair, !.quote = pp.quote,
                            !.riskAmt = RiskAmt(c0.balanceNum, c0.riskPercentNum)],
             LAMBDA c1 :
               IF c0.cur # pp.quote
               THEN LetIn(convertRate(v, key, c0.cur, pp.quote), LAMBDA cv :
                      IF cv.pc = "thrown" THEN Caught([c1 EXCEPT !.conv = cv], cv.error)
                      ELSE [c1 EXCEPT !.pc = "await", !.conv = cv])
               ELSE Settle(c1, One)))

\* handleCalculate from the button press to its first await (or to its end)
Pursue(c0, cleanPair, v, key) ==
    LetIn(parsePair(cleanPair), LAMBDA pp :
      IF ~pp.ok THEN Caught([c0 EXCEPT !.pair = cleanPair], pp.error)
      ELSE LetIn([c0 EXCEPT !.pair = cleanPair, !.quote = pp.quote,
                            !.riskAmt = RiskAmt(c0.balanceNum, c0.riskPercentNum)],
             LAMBDA c1 :
               IF c0.cur # pp.quote
               THEN LetIn(convertRate(v, key, pp.quote, c0.cur), LAMBDA cv :
                      IF cv.pc = "thrown" THEN Caught([c1 EXCEPT !.conv = cv], cv.error)
                      ELSE [c1 EXCEPT !.pc = "await", !.conv = cv])
               ELSE Settle(c1, One)))

Begin(cur, p, bal, rp, sl, v, key) ==
    LetIn([IdleCalc EXCEPT !.cur = cur, !.balanceNum = parseFloat(bal),
                           !.riskPercentNum = parseFloat(rp),
                           !.stopLossNum = parseFloat(sl)],
      LAMBDA c0 :
        IF InvalidNumbers(c0.balanceNum, c0.riskPercentNum, c0.stopLossNum)
        THEN Caught(c0, InputError)
        ELSE Pursue(c0, normalizePair(p), v, key))

\* handleCalculate resumed by the response to its outstanding rate request
Resume(c, resp, v, key) ==
    LetIn(convertResume(v, key, c.conv, resp), LAMBDA cv :
      IF cv.pc = "returned" THEN Settle([c EXCEPT !.conv = cv], cv.value)
      ELSE IF cv.pc = "thrown" THEN Caught([c EXCEPT !.conv = cv], cv.error)
      ELSE [c EXCEPT !.conv = cv])

\* a faulty variant (Publish: the setters run before the risk-per-lot check and in
\* the catch block too)
PublishAnyway(c) ==
    IF c.pc = "done"
    THEN /\ riskAmount' = Shown(c.riskAmt, c.cur)
         /\ pipValue' = Shown(c.pipValuePerLot, c.cur)
         /\ positionSize' = Shown(c.lots, Lots)
    ELSE UNCHANGED outVars

\* 5) update UI: the three setters, called only at the successful end
Publish(c) ==
    IF c.outcome = "ok"
    THEN /\ riskAmount' = Shown(c.riskAmt, c.cur)
         /\ pipValue' = Shown(c.pipValuePerLot, c.cur)
         /\ positionSize' = Shown(c.lots, Lots)
    ELSE UNCHANGED outVars

Init ==
    /\ variant \in {"dynamic", "static"}
    /\ apiKey \in BOOLEAN
    /\ currency = EUR
    /\ pair = EURUSD
    /\ balance = TEmpty
    /\ riskPercent = TEmpty
    /\ stopLoss = TEmpty
    /\ positionSize = Blank
    /\ riskAmount = Blank
    /\ pipValue = Blank
    /\ rateNote = NoNote
    /\ calcs = [i \in Slots |-> IdleCalc]
    /\ started = 0
    /\ edits = 0
    /\ arg = <<>>
    /\ res = NoRes
    /\ conv = IdleConv
    /\ relay = IdleRelay
    /\ calendar = IdleCalendar
    /\ pairsLoad = IdleLoad
    /\ newsletter = IdleForm

\* an edit of a field: free before the first Calculate, counted after it
Edit ==
    /\ started = 0 \/ edits < MaxEdits
    /\ edits' = IF started = 0 THEN edits ELSE edits + 1
    /\ UNCHANGED <<envVars, outVars, rateNote, calcs, started, harnessVars>>

SetCurrency ==
    /\ \E c \in AccountChoices \ {currency} : currency' = c
    /\ Edit
    /\ UNCHANGED <<pair, balance, riskPercent, stopLoss>>

SetPair ==
    /\ \E p \in PairChoices \ {pair} : pair' = p
    /\ Edit
    /\ UNCHANGED <<currency, balance, riskPercent, stopLoss>>

SetBalance ==
    /\ \E t \in BalanceChoices \ {balance} : balance' = t
    /\ Edit
    /\ UNCHANGED <<currency, pair, riskPercent, stopLoss>>

SetRiskPercent ==
    /\ \E t \in RiskChoices \ {riskPercent} : riskPercent' = t
    /\ Edit
    /\ UNCHANGED <<currency, pair, balance, stopLoss>>

SetStopLoss ==
    /\ \E t \in StopChoices \ {stopLoss} : stopLoss' = t
    /\ Edit
    /\ UNCHANGED <<currency, pair, balance, riskPercent>>

\* the Calculate button: the next invocation of handleCalculate
HandleCalculate ==
    /\ started < MaxCalcs
    /\ \E c \in {Begin(currency, pair, balance, riskPercent, stopLoss, variant, apiKey)} :
          /\ calcs' = [calcs EXCEPT ![started + 1] = c]
          /\ Publish(c)
    /\ started' = started + 1
    /\ UNCHANGED <<envVars, formVars, rateNote, edits, harnessVars>>

\* the rate source answers the outstanding request of invocation i
RateReply(i, resp) ==
    /\ calcs[i].pc = "await"
    /\ \E c \in {Resume(calcs[i], resp, variant, apiKey)},
          note \in {convertNote(variant, calcs[i].conv, resp)} :
          /\ calcs' = [calcs EXCEPT ![i] = c]
          /\ rateNote' = IF note # NoNote THEN note ELSE rateNote
          /\ Publish(c)
    /\ UNCHANGED <<envVars, formVars, started, edits, harnessVars>>

Next ==
    \/ SetCurrency
    \/ SetPair
    \/ SetBalance
    \/ SetRiskPercent
    \/ SetStopLoss
    \/ HandleCalculate
    \/ \E i \in Slots, resp \in CalcResponses : RateReply(i, resp)

Spec == Init /\ [][Next]_vars

\* the handler on a form already filled in: every request of the Request sets,
\* no edit afterwards
RequestInit ==
    /\ variant \in {"dynamic", "static"}
    /\ apiKey \in BOOLEAN
    /\ currency \in RequestAccounts
    /\ pair \in RequestPairs
    /\ balance \in RequestBalances
    /\ riskPercent \in RequestRisks
    /\ stopLoss \in RequestStops
    /\ positionSize = Blank
    /\ riskAmount = Blank
    /\ pipValue = Blank
    /\ rateNote = NoNote
    /\ calcs = [i \in Slots |-> IdleCalc]
    /\ started = 0
    /\ edits = 0
    /\ arg = <<>>
    /\ res = NoRes
    /\ conv = IdleConv
    /\ relay = IdleRelay
    /\ calendar = IdleCalendar
    /\ pairsLoad = IdleLoad
    /\ newsletter = IdleForm

RequestNext ==
    \/ HandleCalculate
    \/ \E i \in Slots, resp \in CalcResponses : RateReply(i, resp)

RequestSpec == RequestInit /\ [][RequestNext]_vars

-----------------------------------------------------------------------------
(* The pair helpers applied to pair texts *)

PairBases == {EUR, USD, XAU, XAG, WTI, BTC, ETH}
PairQuotes == {USD, JPY}
PairSymbols == {b \o q : b \in PairBases, q \in PairQuotes}

\* a symbol, the symbol cut to 5 characters, the symbol with a 7th character
Shapes(s) == {s, SubSeq(s, 1, 5), s \o <<"X">>}

InsertAt(s, i) == SubSeq(s, 1, i) \o <<Slash>> \o SubSeq(s, i + 1, Len(s))

RECURSIVE WithSlashes(_, _)
WithSlashes(S, n) ==
    IF n = 0 THEN S
    ELSE S \cup WithSlashes(UNION {{InsertAt(s, i) : i \in 0..Len(s)} : s \in S}, n - 1)

\* the texts: up to MaxSlashes separators anywhere, upper or lower case
PairTexts ==
    LET U == WithSlashes(UNION {Shapes(s) : s \in PairSymbols}, MaxSlashes)
    IN  U \cup {toLowerCase(s) : s \in U}

Construction ==
    /\ currency = EUR
    /\ pair = EURUSD
    /\ balance = TEmpty
    /\ riskPercent = TEmpty
    /\ stopLoss = TEmpty
    /\ positionSize = Blank
    /\ riskAmount = Blank
    /\ pipValue = Blank
    /\ rateNote = NoNote
    /\ calcs = [i \in Slots |-> IdleCalc]
    /\ started = 0
    /\ edits = 0

PairInit ==
    /\ variant = "dynamic"
    /\ apiKey = TRUE
    /\ Construction
    /\ arg \in PairTexts
    /\ res = NoRes
    /\ conv = IdleConv
    /\ relay = IdleRelay
    /\ calendar = IdleCalendar
    /\ pairsLoad = IdleLoad
    /\ newsletter = IdleForm

\* the function is applied to arg, or to what normalizePair made of arg
PairInputs ==
    {[in |-> arg, fed |-> FALSE]} \cup
    (IF res.op = "normalizePair" /\ ~res.fed
     THEN {[in |-> res.text, fed |-> TRUE]} ELSE {})

Applied(op, x) == [NoRes EXCEPT !.op = op, !.in = x.in, !.fed = x.fed]

PairFrame ==
    UNCHANGED <<envVars, formVars, outVars, rateNote, calcs, started, edits, arg, conv, relay, pageVars>>

ApplyNormalizePair ==
    /\ \E x \in PairInputs :
          res' = [Applied("normalizePair", x) EXCEPT !.text = normalizePair(x.in)]
    /\ PairFrame

ApplyParsePair ==
    /\ \E x \in PairInputs :
          res' = [Applied("parsePair", x) EXCEPT !.parsed = parsePair(x.in)]
    /\ PairFrame

ApplyPipSizeFor ==
    /\ \E x \in PairInputs :
          res' = [Applied("pipSizeFor", x) EXCEPT !.num = pipSizeFor(x.in)]
    /\ PairFrame

ApplyContractSizeFor ==
    /\ \E x \in PairInputs :
          res' = [Applied("contractSizeFor", x) EXCEPT !.num = contractSizeFor(x.in)]
    /\ PairFrame

PairNext ==
    \/ ApplyNormalizePair
    \/ ApplyParsePair
    \/ ApplyPipSizeFor
    \/ ApplyContractSizeFor

PairSpec == PairInit /\ [][PairNext]_vars

-----------------------------------------------------------------------------
(* convertRate called directly, for every pair of codes and every response *)

RateInit ==
    /\ variant \in {"dynamic", "static"}
    /\ apiKey \in BOOLEAN
    /\ Construction
    /\ arg = <<>>
    /\ res = NoRes
    /\ conv = IdleConv
    /\ relay = IdleRelay
    /\ calendar = IdleCalendar
    /\ pairsLoad = IdleLoad
    /\ newsletter = IdleForm

RateFrame ==
    UNCHANGED <<envVars, formVars, outVars, calcs, started, edits, arg, res, relay, pageVars>>

CallConvertRate ==
    /\ conv.pc = "idle"
    /\ \E fromCcy \in RateCodes, toCcy \in RateCodes :
          conv' = convertRate(variant, apiKey, fromCcy, toCcy)
    /\ UNCHANGED rateNote
    /\ RateFrame

ConvertReply ==
    /\ conv.pc \in {"direct", "inverse"}
    /\ \E resp \in Responses :
          /\ conv' = convertResume(variant, apiKey, conv, resp)
          /\ \E note \in {convertNote(variant, conv, resp)} :
                rateNote' = IF note # NoNote THEN note ELSE rateNote
    /\ RateFrame

RateNext ==
    \/ CallConvertRate
    \/ ConvertReply

RateSpec == RateInit /\ [][RateNext]_vars

-----------------------------------------------------------------------------
(* Properties of the Calculate handler, checked under RequestSpec, where the *)
(* form holds the request from the start to the end of the behaviour        *)

ReqBalance == parseFloat(balance)
ReqRisk == parseFloat(riskPercent)
ReqStop == parseFloat(stopLoss)
ReqSymbol == normalizePair(pair)
ReqQuote == slice(ReqSymbol, 3, 6)
Hundred == Int2Num(100)

Ended(c) == c.pc = "done"
Succeeded(c) == c.outcome = "ok"
Failed(c) == c.outcome = "failed"

\* C1: a successful calculation on a well-formed 6-character symbol has used
\* quoteToAccount = 1 when the account currency is the quote currency and the
\* rate convertRate returned otherwise, and has computed exactly
\* riskAmount = balance * riskPercent / 100,
\* pipValuePerLot = pipSize * quoteToAccount * contractSize and
\* positionSizeLots = riskAmount / (stopLossPips * pipValuePerLot); what is
\* displayed is the two-decimal text of the figures of a successful calculation
C1_ExactFigures ==
    /\ \A i \in Slots :
          LET c == calcs[i]
              q == c.quoteToAccount
          IN  (Succeeded(c) /\ Len(ReqSymbol) = 6) =>
                /\ GtZero(ReqBalance) /\ GtZero(ReqRisk) /\ GtZero(ReqStop)
                /\ q = IF currency = ReqQuote THEN One ELSE c.conv.value
                /\ currency # ReqQuote => c.conv.pc = "returned"
                /\ c.riskAmt = Div(Mul(ReqBalance, ReqRisk), Hundred)
                /\ c.pipValuePerLot =
                     Mul(pipSizeFor(ReqSymbol), Mul(q, contractSizeFor(ReqSymbol)))
                /\ c.lots = Div(c.riskAmt, Mul(ReqStop, c.pipValuePerLot))
    /\ (\E i \in Slots : Succeeded(calcs[i])) =>
          \E i \in Slots :
             /\ Succeeded(calcs[i])
             /\ riskAmount = Shown(calcs[i].riskAmt, currency)
             /\ pipValue = Shown(calcs[i].pipValuePerLot, currency)
             /\ positionSize = Shown(calcs[i].lots, Lots)

\* a calculation that needed a conversion has succeeded and is displayed
C1_Witness ==
    \E i \in Slots :
       /\ Succeeded(calcs[i])
       /\ Len(ReqSymbol) = 6
       /\ currency # ReqQuote
       /\ calcs[i].quoteToAccount # One
       /\ riskAmount = Shown(calcs[i].riskAmt, currency)
       /\ positionSize = Shown(calcs[i].lots, Lots)

NotFinitePositive(x) == ~isFinite(x) \/ LeqZero(x)

\* C2: a request whose balance, risk percent or stop loss is <= 0 or not a
\* finite number fails: no rate request is issued and none of the three
\* outputs is written
C2_InvalidInputRejected ==
    (NotFinitePositive(ReqBalance) \/ NotFinitePositive(ReqRisk)
        \/ NotFinitePositive(ReqStop)) =>
       /\ \A i \in Slots :
             calcs[i].pc # "idle" =>
                /\ Failed(calcs[i])
                /\ calcs[i].conv.reqs = <<>>
       /\ riskAmount = Blank /\ pipValue = Blank /\ positionSize = Blank

\* a lookup fails: network error, non-2xx status, unparseable body, or the
\* entry of a requested code (other than the anchor USD) is missing or does not
\* parse to a finite positive number
EntryFails(resp, c) == c # USD /\ NotFinitePositive(RateEntry(resp, c))
LookupFails(req, resp) ==
    \/ resp.kind # "ok"
    \/ EntryFails(resp, req.base)
    \/ EntryFails(resp, req.quote)

AllLookupsFailed(cv) ==
    /\ Len(cv.replies) >= 1
    /\ Len(cv.replies) = Len(cv.reqs)
    /\ \A k \in 1..Len(cv.replies) : LookupFails(cv.reqs[k], cv.replies[k])

\* C3: a calculation whose account currency differs from the quote currency
\* and all of whose rate lookups failed ends with the rate-unavailable error;
\* it does not complete
C3_FailedLookupsFailCalculation ==
    \A i \in Slots :
       (Ended(calcs[i]) /\ calcs[i].cur # calcs[i].quote
           /\ AllLookupsFailed(calcs[i].conv)) =>
          /\ Failed(calcs[i])
          /\ calcs[i].error = RateError(calcs[i].quote, calcs[i].cur)

\* C4: fail-fast, no partial result: the outputs change only in the step in
\* which a calculation ends successfully, so a calculation that fails (in the
\* same step or earlier) has written none of them; a calculation that has
\* ended does nothing more, and no calculation issues the same lookup twice
C4_Step ==
    /\ outVars' # outVars =>
          \E i \in Slots : ~Ended(calcs[i]) /\ Succeeded(calcs'[i])
    /\ \A i \in Slots :
          /\ (~Failed(calcs[i]) /\ Failed(calcs'[i])) => outVars' = outVars
          /\ Ended(calcs[i]) => calcs'[i] = calcs[i]
          /\ Len(calcs'[i].conv.reqs) <= 2
          /\ Len(calcs'[i].conv.reqs) = 2 =>
                calcs'[i].conv.reqs[1] # calcs'[i].conv.reqs[2]

C4_FailureWritesNothing == [][C4_Step]_vars

\* after a calculation has displayed its result, another one has failed for
\* want of a rate, and the display is still there
C4_Witness ==
    \E i, j \in Slots :
       /\ Succeeded(calcs[i])
       /\ Failed(calcs[j])
       /\ calcs[j].error = RateError(calcs[j].quote, calcs[j].cur)
       /\ riskAmount = Shown(calcs[i].riskAmt, currency)
       /\ pipValue = Shown(calcs[i].pipValuePerLot, currency)
       /\ positionSize = Shown(calcs[i].lots, Lots)

\* C5: a calculation (on valid numbers) on a symbol whose normalized form is
\* not exactly 6 characters fails and issues no rate request
C5_MalformedSymbolNoLookup ==
    (Len(ReqSymbol) # 6 /\ ~InvalidNumbers(ReqBalance, ReqRisk, ReqStop)) =>
       \A i \in Slots :
          calcs[i].pc # "idle" =>
             /\ Failed(calcs[i])
             /\ calcs[i].conv.reqs = <<>>

-----------------------------------------------------------------------------
(* Properties of the pair helpers, checked under PairSpec *)

StripAll(s) == SelectSeq(s, LAMBDA ch : ch # Slash)

\* C6 (as amended): parsePair succeeds exactly when the normalized text has 6
\* characters; it then returns the first three and the last three characters,
\* whatever they are; otherwise it throws the one error of symbol handling,
\* whose message is fixed and carries no part of the input
C6_ParsePairLengthOnly ==
    res.op = "parsePair" =>
       LET n == normalizePair(res.in)
           r == res.parsed
       IN  /\ r.ok <=> Len(n) = 6
           /\ r.ok =>
                /\ r.base = SubSeq(n, 1, 3)
                /\ r.quote = SubSeq(n, 4, 6)
                /\ r.base \o r.quote = n
           /\ ~r.ok =>
                /\ r.error.message = "Pair must be like 'EURUSD' or 'EUR/USD'"
                /\ r.error.args = <<>>

\* parsePair has refused a text whose normalized form has 7 characters
C6_Witness ==
    /\ res.op = "parsePair"
    /\ ~res.parsed.ok
    /\ Len(normalizePair(res.in)) = 7

\* C6 (as claimed): ... and the error of a refused text names that text
C6_ErrorNamesInput ==
    res.op = "parsePair" =>
       /\ res.parsed.ok <=> Len(normalizePair(res.in)) = 6
       /\ ~res.parsed.ok =>
             \E k \in 1..Len(res.parsed.error.args) :
                res.parsed.error.args[k] = res.in

\* the classification table, in its order of precedence
ClassificationTable ==
    << [on |-> "suffix", code |-> JPY, pip |-> Fin(1, 100), contract |-> Int2Num(100000)],
       [on |-> "prefix", code |-> XAU, pip |-> Fin(1, 100), contract |-> Int2Num(100)],
       [on |-> "prefix", code |-> XAG, pip |-> Fin(1, 100), contract |-> Int2Num(5000)],
       [on |-> "prefix", code |-> WTI, pip |-> Fin(1, 100), contract |-> Int2Num(1000)],
       [on |-> "prefix", code |-> BTC, pip |-> Int2Num(1), contract |-> Int2Num(1)],
       [on |-> "prefix", code |-> ETH, pip |-> Int2Num(1), contract |-> Int2Num(1)] >>
DefaultRow ==
    [on |-> "default", code |-> <<>>, pip |-> Fin(1, 10000), contract |-> Int2Num(100000)]

Matches(row, s) ==
    IF row.on = "suffix" THEN endsWith(s, row.code) ELSE startsWith(s, row.code)

\* the first row of table that matches s, the default row if none does
FirstMatch(table, s) ==
    LET K == {k \in 1..Len(table) : Matches(table[k], s)}
    IN  IF K = {} THEN DefaultRow
        ELSE table[CHOOSE k \in K : \A j \in K : k <= j]

\* C7 (as amended): with n the normalized symbol, pipSizeFor is the pip size
\* of the first matching row of the table, and contractSizeFor is the contract
\* size of the first matching PREFIX row (default 100000): the JPY suffix row
\* decides the pip size only, so XAUJPY has (0.01, 100)
C7_ParametersByTable ==
    LET n == normalizePair(res.in)
    IN  /\ res.op = "pipSizeFor" => res.num = FirstMatch(ClassificationTable, n).pip
        /\ res.op = "contractSizeFor" =>
              res.num = FirstMatch(Tail(ClassificationTable), n).contract

\* contractSizeFor has been applied to a normalized symbol with a metal
\* prefix and a JPY suffix
C7_Witness ==
    /\ res.op = "contractSizeFor"
    /\ res.fed
    /\ res.in = XAU \o JPY
    /\ res.num = Int2Num(100)

\* C7 (as claimed): on a normalized symbol, pip size and contract size are both
\* those of the first matching row of the table
C7_FirstRowDecidesBoth ==
    res.fed =>
       /\ res.op = "pipSizeFor" =>
             res.num = FirstMatch(ClassificationTable, res.in).pip
       /\ res.op = "contractSizeFor" =>
             res.num = FirstMatch(ClassificationTable, res.in).contract

\* C8: normalizePair deletes every "/" of its input and upper-cases the rest
C8_NormalizeStripsEverySlash ==
    (res.op = "normalizePair" /\ ~res.fed) =>
       /\ Slash \notin Range(res.text)
       /\ res.text = toUpperCase(StripAll(arg))

\* C9: normalizePair applied to its own output returns it unchanged; and for
\* a text s that parsePair accepts, parsePair of normalizePair(s) succeeds with
\* a base and a quote of 3 characters each that concatenate to normalizePair(s)
C9_IdempotentAndSplit ==
    /\ (res.op = "normalizePair" /\ res.fed) => res.text = res.in
    /\ (res.op = "parsePair" /\ res.fed /\ parsePair(arg).ok) =>
          /\ res.parsed.ok
          /\ Len(res.parsed.base) = 3
          /\ Len(res.parsed.quote) = 3
          /\ res.parsed.base \o res.parsed.quote = res.in

-----------------------------------------------------------------------------
(* Properties of the rate resolver, checked under RateSpec *)

\* C10: convertRate(x, x) returns exactly 1 and issues no remote request,
\* with or without an API key
C10_SameCurrencyIsOne ==
    (conv.pc # "idle" /\ conv.from = conv.to) =>
       /\ conv.pc = "returned"
       /\ conv.value = One
       /\ conv.reqs = <<>>

\* convertRate has been called with twice the same code, without an API key
C10_Witness ==
    /\ conv.pc = "returned"
    /\ conv.from = conv.to
    /\ ~apiKey

\* C11: every value convertRate returns is a finite number greater than 0,
\* whatever the responses of the rate source hold
C11_ReturnedRateFinitePositive ==
    conv.pc = "returned" => (isFinite(conv.value) /\ GtZero(conv.value))

\* the rate the k-th lookup of the call yielded
LookupRate(k) ==
    fetchRate(variant, conv.reqs[k].base, conv.reqs[k].quote, conv.replies[k])

DirectReq == [base |-> conv.from, quote |-> conv.to, keyed |-> apiKey]

InverseReq == [base |-> conv.to, quote |-> conv.from, keyed |-> apiKey]

\* direct first, inverse only after an unusable direct rate, one or two lookups
DirectThenInverse ==
    /\ conv.reqs \in {<<DirectReq>>, <<DirectReq, InverseReq>>}
    /\ Len(conv.reqs) = 2 => ~Usable(LookupRate(1))
    /\ conv.pc = "direct" <=> (Len(conv.reqs) = 1 /\ conv.replies = <<>>)
    /\ conv.pc = "inverse" <=> (Len(conv.reqs) = 2 /\ Len(conv.replies) = 1)
    /\ conv.pc \in {"returned", "thrown"} =>
          /\ Len(conv.replies) = Len(conv.reqs)
          /\ Usable(LookupRate(1)) =>
                conv.pc = "returned" /\ Len(conv.reqs) = 1 /\ conv.value = LookupRate(1)
          /\ ~Usable(LookupRate(1)) =>
                /\ Len(conv.reqs) = 2
                /\ IF Usable(LookupRate(2))
                   THEN conv.pc = "returned" /\ conv.value = Div(One, LookupRate(2))
                   ELSE conv.pc = "thrown" /\ conv.error = RateError(conv.from, conv.to)

\* the resolver can reach the rate source: fetchExchangeRate of the dynamic
\* variant throws before its fetch when the API key is missing
CanQuery == variant = "static" \/ apiKey

\* C19: a call of convertRate for two different codes that can reach the rate
\* source issues the direct lookup first, the inverse lookup only if the direct
\* one yielded no finite positive number, returns the direct rate or 1 over the
\* inverse rate, and throws the rate-unavailable error if neither was usable:
\* one or two lookups; in the dynamic variant without an API key it issues no
\* lookup and throws "Missing API key"
C19_DirectThenInverseWithKey ==
    (conv.pc # "idle" /\ conv.from # conv.to) =>
       IF CanQuery THEN DirectThenInverse
       ELSE /\ conv.pc = "thrown"
            /\ conv.reqs = <<>>
            /\ conv.error = Error("Missing API key", <<>>)

\* the direct lookup was unusable and the call returned 1 over the inverse rate
C19_Witness ==
    /\ conv.pc = "returned"
    /\ Len(conv.replies) = 2
    /\ ~Usable(LookupRate(1))
    /\ conv.value = Div(One, LookupRate(2))
    /\ conv.value # LookupRate(2)

\* C19 as stated: every resolution for two different codes issues one or two
\* lookups, direct first, and fails with rate-unavailable only
C19_DirectThenInverse ==
    (conv.pc # "idle" /\ conv.from # conv.to) => DirectThenInverse

-----------------------------------------------------------------------------
(* More properties of the Calculate handler, checked under RequestSpec *)

FinitePositive(x) == isFinite(x) /\ GtZero(x)

\* the risk per lot of a calculation that got as far as computing it
RiskPerLot(c) == Mul(c.stopLossNum, PipValuePerLot(c.pair, c.quoteToAccount))

\* C12: a calculation whose risk per lot is not finite or is <= 0 fails with
\* the invalid-calculation error, and every calculation that succeeds has a
\* finite risk amount, pip value per lot and position size, all greater than 0
C12_ResultsFinitePositive ==
    \A i \in Slots :
       LET c == calcs[i]
       IN  /\ (Ended(c) /\ c.quoteToAccount # Null
                 /\ ~FinitePositive(RiskPerLot(c))) =>
                (Failed(c) /\ c.error = RiskPerLotError)
           /\ Succeeded(c) =>
                /\ FinitePositive(c.riskAmt)
                /\ FinitePositive(c.pipValuePerLot)
                /\ FinitePositive(c.lots)

\* the calculations that are waiting for the rate source
InProgress == {i \in Slots : calcs[i].pc = "await"}

\* C13: at most one calculation is in progress at any time
C13_OneCalculationAtATime == Cardinality(InProgress) <= 1

\* the calculation has a quote currency other than the account currency
NeedsConversion(c) == c.pc # "idle" /\ c.quote # <<>> /\ c.cur # c.quote

\* C14: without an API key no request is sent to the rate source, and a
\* calculation that needs a conversion fails
C14_NoQueryWithoutKey ==
    ~apiKey =>
       \A i \in Slots :
          /\ calcs[i].conv.reqs = <<>>
          /\ NeedsConversion(calcs[i]) => Failed(calcs[i])

-----------------------------------------------------------------------------
(* The simple calculator (no rate lookup): its synchronous Calculate handler *)

SimpleInputError == Error("Please fill all required fields with valid numbers", <<>>)
Units == "units"
TenThousand == Int2Num(10000)

\* parseFloat of a text that toFixed produced
parseFixed(t) ==
    IF t.k = "dec" THEN FinE(t.scaled, Pow10(t.digits), 0)
    ELSE IF t.k = "exp" THEN FinE(t.scaled, 1, t.digits)
    ELSE IF t.k = "Infinity" THEN Inf(t.scaled)
    ELSE NaN

\* the three texts handleCalculate computes from the parsed fields
SimpleFigures(b, r, sl) ==
    LetIn(toFixed(Mul(b, Div(r, Int2Num(100))), 2), LAMBDA riskAmt :
      LetIn(toFixed(Div(parseFixed(riskAmt), sl), 2), LAMBDA pipVal :
        [riskAmt |-> riskAmt, pipVal |-> pipVal,
         posSize |-> toFixed(Mul(parseFixed(pipVal), TenThousand), 2)]))

\* one run of the handler, as a record of the calculation
SimpleRun(cur, bal, rp, sl) ==
    LetIn([IdleCalc EXCEPT !.pc = "done", !.cur = cur,
                           !.balanceNum = parseFloat(bal),
                           !.riskPercentNum = parseFloat(rp),
                           !.stopLossNum = parseFloat(sl)],
      LAMBDA c :
        IF isNaN(c.balanceNum) \/ isNaN(c.riskPercentNum) \/ isNaN(c.stopLossNum)
        THEN [c EXCEPT !.outcome = "failed", !.error = SimpleInputError]
        ELSE [c EXCEPT !.outcome = "ok"])

SimpleHandleCalculate ==
    /\ started < MaxCalcs
    /\ \E c \in {SimpleRun(currency, balance, riskPercent, stopLoss)} :
          /\ calcs' = [calcs EXCEPT ![started + 1] = c]
          /\ IF c.outcome = "ok"
             THEN \E f \in {SimpleFigures(c.balanceNum, c.riskPercentNum,
                                          c.stopLossNum)} :
                     /\ riskAmount' = [text |-> f.riskAmt, unit |-> c.cur]
                     /\ pipValue' = [text |-> f.pipVal, unit |-> c.cur]
                     /\ positionSize' = [text |-> f.posSize, unit |-> Units]
             ELSE UNCHANGED outVars
    /\ started' = started + 1
    /\ UNCHANGED <<envVars, formVars, rateNote, edits, harnessVars>>

\* texts of the number inputs in the runs of the simple calculator
T3 == <<"3">>
SimpleBalances == {TEmpty, TZero, T1000, T1e999}
SimpleRisks == {TEmpty, TNeg5, T2}
SimpleStops == {TEmpty, TZero, T3, T50}

SimpleInit ==
    /\ variant = "simple"
    /\ apiKey = FALSE
    /\ currency \in RequestAccounts
    /\ pair \in PairChoices
    /\ balance \in SimpleBalances
    /\ riskPercent \in SimpleRisks
    /\ stopLoss \in SimpleStops
    /\ positionSize = Blank
    /\ riskAmount = Blank
    /\ pipValue = Blank
    /\ rateNote = NoNote
    /\ calcs = [i \in Slots |-> IdleCalc]
    /\ started = 0
    /\ edits = 0
    /\ arg = <<>>
    /\ res = NoRes
    /\ conv = IdleConv
    /\ relay = IdleRelay
    /\ calendar = IdleCalendar
    /\ pairsLoad = IdleLoad
    /\ newsletter = IdleForm

SimpleNext == SimpleHandleCalculate

SimpleSpec == SimpleInit /\ [][SimpleNext]_vars

\* the figures without any rounding before the display
SimpleRiskAmt == Mul(parseFloat(balance), Div(parseFloat(riskPercent), Hundred))
SimplePipVal == Div(SimpleRiskAmt, parseFloat(stopLoss))
SimplePosSize == Mul(SimplePipVal, TenThousand)

\* C15: rounding to two decimals happens only when the outputs are formatted:
\* each displayed figure of the simple calculator is the rounding of the
\* figure computed from unrounded intermediate values
C15_RoundingOnlyAtDisplay ==
    (started > 0 /\ Succeeded(calcs[1])) =>
       /\ riskAmount.text = toFixed(SimpleRiskAmt, 2)
       /\ pipValue.text = toFixed(SimplePipVal, 2)
       /\ positionSize.text = toFixed(SimplePosSize, 2)

-----------------------------------------------------------------------------
(* Properties of the component with its form being edited, checked under Spec *)

\* a <= b for numbers a, b > 0
AtMost(a, b) ==
    IF a.k = "inf" THEN b.k = "inf"
    ELSE b.k = "inf" \/
         LET q == Div(a, b)
         IN  /\ q.k = "fin"
             /\ IF q.e >= 0 THEN q.n * Pow10(q.e) <= q.d
                ELSE q.n <= q.d * Pow10(-q.e)

\* C16: no calculation succeeds with a risk percent above 100, so the risk
\* amount of every result is at most the balance
C16_RiskPercentAtMost100 ==
    \A i \in Slots :
       Succeeded(calcs[i]) =>
          /\ AtMost(calcs[i].riskPercentNum, Hundred)
          /\ AtMost(calcs[i].riskAmt, calcs[i].balanceNum)

-----------------------------------------------------------------------------
(* Determinism of the Calculate handler, checked under RequestSpec *)

\* what a calculation read: the fields at the press and the responses it got
SameInputs(c1, c2) ==
    /\ c1.cur = c2.cur
    /\ c1.pair = c2.pair
    /\ c1.balanceNum = c2.balanceNum
    /\ c1.riskPercentNum = c2.riskPercentNum
    /\ c1.stopLossNum = c2.stopLossNum
    /\ c1.conv.replies = c2.conv.replies

\* what a calculation produced, as it would display it
Outputs(c) ==
    IF Succeeded(c)
    THEN <<"ok", Shown(c.riskAmt, c.cur), Shown(c.pipValuePerLot, c.cur),
           Shown(c.lots, Lots)>>
    ELSE <<"failed", c.error>>

-----------------------------------------------------------------------------
(* The USD-anchored derivation, checked under RateSpec *)

\* the table value of a code in the k-th response: units of the code per 1 USD
PerUsd(k, c) == RateEntry(conv.replies[k], c)

\* the rate the table gives for the k-th request
Derived(k) ==
    LET base == conv.reqs[k].base
        quote == conv.reqs[k].quote
    IN  IF base = USD THEN PerUsd(k, quote)
        ELSE IF quote = USD THEN Div(One, PerUsd(k, base))
        ELSE Div(PerUsd(k, quote), PerUsd(k, base))

\* the response holds a table with a finite positive value for both codes
TableGiven(k) ==
    /\ conv.replies[k].kind = "ok"
    /\ FinitePositive(PerUsd(k, conv.reqs[k].base))
    /\ FinitePositive(PerUsd(k, conv.reqs[k].quote))

\* C20: a lookup whose response gives a finite positive table value for base
\* and for quote yields perUsd[quote] when base is USD, 1 / perUsd[base] when
\* quote is USD and perUsd[quote] / perUsd[base] otherwise; every rate a lookup
\* yields is that rate, and it is the rate convertRate returns after its
\* direct lookup
C20_UsdAnchoredDerivation ==
    /\ \A k \in DOMAIN conv.replies :
          /\ TableGiven(k) => LookupRate(k) = Derived(k)
          /\ LookupRate(k) # Null => LookupRate(k) = Derived(k)
    /\ (conv.pc = "returned" /\ Len(conv.replies) = 1) => conv.value = Derived(1)

\* a cross rate has been derived: EUR->JPY from 0.9 EUR and 150 JPY per USD
C20_Witness ==
    /\ conv.pc = "returned"
    /\ conv.from = EUR /\ conv.to = JPY
    /\ Len(conv.replies) = 1
    /\ TableGiven(1)
    /\ conv.value = Div(parseFloat(T150), parseFloat(T09))

-----------------------------------------------------------------------------
(* The newsletter route on its own: one request through POST *)

RelayFrame ==
    UNCHANGED <<envVars, formVars, outVars, rateNote, calcs, started, edits, arg, res, conv, pageVars>>

\* a request arrives and POST awaits req.json()
RelayRequest ==
    /\ relay.pc = "idle"
    /\ \E b \in RelayBodies :
          relay' = [relay EXCEPT !.pc = "reading", !.body = b]
    /\ RelayFrame

\* req.json() has ended: a rejection, or the destructuring of null, goes to
\* the catch block; otherwise the form is built and the fetch is issued
RelayRead ==
    /\ relay.pc = "reading"
    /\ relay' = IF relay.body.kind = "object"
                THEN [relay EXCEPT !.pc = "posting",
                                   !.posts = Append(@, UpstreamPost(relay.body.email))]
                ELSE [relay EXCEPT !.pc = "done", !.answer = FailureAnswer]
    /\ RelayFrame

\* the fetch has ended and POST answers
RelayReply ==
    /\ relay.pc = "posting"
    /\ \E reply \in RelayReplies :
          relay' = [relay EXCEPT !.pc = "done", !.reply = reply,
                                 !.answer = RelayAnswer(reply)]
    /\ RelayFrame

RelayInit ==
    /\ variant = "dynamic"
    /\ apiKey = TRUE
    /\ Construction
    /\ arg = <<>>
    /\ res = NoRes
    /\ conv = IdleConv
    /\ relay = IdleRelay
    /\ calendar = IdleCalendar
    /\ pairsLoad = IdleLoad
    /\ newsletter = IdleForm

RelayNext == RelayRequest \/ RelayRead \/ RelayReply

RelaySpec == RelayInit /\ [][RelayNext]_vars

FormField(post, name) ==
    {post.form[i].value : i \in {j \in DOMAIN post.form : post.form[j].name = name}}

\* C18: the route sends at most one request, a form-encoded POST to the
\* endpoint whose EMAIL field is the email of the body and whose honeypot
\* field is empty, and exactly one when the body was a readable object; it
\* answers success, with status 200, exactly when that request got a response
\* with a status from 200 to 299, and answers status 500 without success on any
\* other response, on a network error and on an unreadable body
C18_RelayAnswersByUpstream ==
    /\ Len(relay.posts) <= 1
    /\ \A i \in DOMAIN relay.posts :
          /\ relay.posts[i].url = SibformsUrl
          /\ relay.posts[i].method = "POST"
          /\ relay.posts[i].contentType = "application/x-www-form-urlencoded"
          /\ FormField(relay.posts[i], "EMAIL") = {ToFormValue(relay.body.email)}
          /\ FormField(relay.posts[i], "email_address_check") = {""}
    /\ relay.pc \in {"posting", "done"} /\ relay.body.kind = "object" =>
          Len(relay.posts) = 1
    /\ relay.pc = "done" =>
          /\ relay.answer.success <=>
                /\ Len(relay.posts) = 1
                /\ relay.reply.kind = "response"
                /\ relay.reply.status \in 200..299
          /\ relay.answer \in {SuccessAnswer, FailureAnswer}
          /\ relay.answer.success <=> relay.answer.status # 500
    /\ relay.pc # "done" => relay.answer = NoAnswer

\* a subscription was relayed and accepted by the endpoint
C18_Witness ==
    /\ relay.pc = "done"
    /\ relay.body.email = Str("ada@example.com")
    /\ Len(relay.posts) = 1
    /\ relay.reply = [kind |-> "response", status |-> 204]
    /\ relay.answer = SuccessAnswer

-----------------------------------------------------------------------------
(* Round trip of the resolver, checked under RateSpec *)

\* a whole call of convertRate whose lookups are all answered with resp
ResolveWith(v, key, fromCcy, toCcy, resp) ==
    LetIn(convertRate(v, key, fromCcy, toCcy), LAMBDA c0 :
      LetIn(IF c0.pc = "direct" THEN convertResume(v, key, c0, resp) ELSE c0, LAMBDA c1 :
        IF c1.pc = "inverse" THEN convertResume(v, key, c1, resp) ELSE c1))

\* what the rate source answers with resp to the lookup fromCcy->toCcy
Answer(fromCcy, toCcy, resp) == fetchRate(variant, fromCcy, toCcy, resp)

\* the rate source answers from->to with a finite positive r and to->from with
\* 1/r computed as the code computes it
Reciprocal(fromCcy, toCcy, resp) ==
    /\ resp.kind = "ok"
    /\ FinitePositive(Answer(fromCcy, toCcy, resp))
    /\ Answer(toCcy, fromCcy, resp) = Div(One, Answer(fromCcy, toCcy, resp))

-----------------------------------------------------------------------------
(* Rate lookups of a calculation, checked under RequestSpec *)

\* the calculation got past the guard and parsePair: it has a quote currency
Computing(c) == c.pc # "idle" /\ c.quote # <<>>

\* the rate the calculation's own lookups give: the direct rate, or 1 over the
\* inverse rate
OwnRate(c) ==
    LET k == Len(c.conv.replies)
        r == fetchRate(variant, c.conv.reqs[k].base, c.conv.reqs[k].quote,
                       c.conv.replies[k])
    IN  IF k = 1 THEN r ELSE Div(One, r)

\* the calculation asks for quote -> account first, and what it uses is the
\* rate of its own lookups
FreshLookup(c) ==
    /\ Len(c.conv.reqs) >= 1
    /\ c.conv.reqs[1] = [base |-> c.quote, quote |-> c.cur, keyed |-> apiKey]
    /\ Succeeded(c) =>
          /\ Len(c.conv.replies) = Len(c.conv.reqs)
          /\ c.quoteToAccount = OwnRate(c)

NoLookup(c) == c.conv.reqs = <<>>

\* C22: a calculation that got as far as its quote currency issues no lookup
\* when the account currency is the quote currency, and quoteToAccount is then
\* exactly 1; otherwise, when the resolver can reach the rate source, it issues
\* its own lookup for quote -> account and uses the rate its own lookups gave;
\* in the dynamic variant without an API key it issues no lookup and fails
C22_LookupIffConversionWithKey ==
    \A i \in Slots :
       Computing(calcs[i]) =>
          IF calcs[i].cur = calcs[i].quote
          THEN /\ NoLookup(calcs[i])
               /\ Ended(calcs[i])
               /\ calcs[i].quoteToAccount = One
          ELSE IF CanQuery THEN FreshLookup(calcs[i])
          ELSE /\ NoLookup(calcs[i])
               /\ Failed(calcs[i])
               /\ calcs[i].error = Error("Missing API key", <<>>)

\* two calculations of the same request have succeeded, each on its own
\* lookups: the first by its direct lookup, the second, whose direct lookup
\* failed, by its inverse lookup
C22_Witness ==
    /\ Succeeded(calcs[1]) /\ Succeeded(calcs[2])
    /\ calcs[1].cur # calcs[1].quote
    /\ FreshLookup(calcs[1]) /\ FreshLookup(calcs[2])
    /\ Len(calcs[1].conv.reqs) = 1
    /\ Len(calcs[2].conv.reqs) = 2

\* C22 as stated: a calculation issues no lookup if and only if the account
\* currency is the quote currency, and otherwise a fresh one
C22_LookupIffConversion ==
    \A i \in Slots :
       Computing(calcs[i]) =>
          /\ NoLookup(calcs[i]) <=> calcs[i].cur = calcs[i].quote
          /\ calcs[i].cur = calcs[i].quote => calcs[i].quoteToAccount = One
          /\ calcs[i].cur # calcs[i].quote => FreshLookup(calcs[i])

-----------------------------------------------------------------------------
(* The guard of the simple calculator, checked under SimpleSpec *)

\* C23: the simple calculator rejects a request whose balance, risk percent or
\* stop-loss is missing, not a number, zero or negative, and then writes none
\* of the three outputs
C23_SimpleRejectsNonPositive ==
    \A i \in 1..started :
       InvalidNumbers(parseFloat(balance), parseFloat(riskPercent), parseFloat(stopLoss)) =>
          /\ Failed(calcs[i])
          /\ calcs[i].error = SimpleInputError
          /\ riskAmount = Blank /\ pipValue = Blank /\ positionSize = Blank

-----------------------------------------------------------------------------
(* The economic-calendar panel: filters, the hiddenItems effect, its timers *)

CalendarFrame ==
    UNCHANGED <<envVars, formVars, outVars, rateNote, calcs, started, edits,
                arg, res, conv, relay, pairsLoad, newsletter>>

\* a change of the filters or of the events, followed by the effect it triggers
CalendarChange(st) ==
    /\ Len(HiddenItemsEffect(st).timers) <= MaxPending
    /\ calendar' = HiddenItemsEffect(st)
    /\ CalendarFrame

\* the fetch of /api/economic-events has ended: with a list, or with an error
EventsLoaded ==
    /\ calendar.loading
    /\ \E list \in EventLists \cup {<<>>} :
          CalendarChange([calendar EXCEPT !.events = list, !.loading = FALSE])

SetShowHigh == CalendarChange([calendar EXCEPT !.showHigh = ~@])

SetShowMedium == CalendarChange([calendar EXCEPT !.showMedium = ~@])

SetShowLow == CalendarChange([calendar EXCEPT !.showLow = ~@])

\* a checkbox of the currency dropdown
ToggleCurrency ==
    \E c \in availableCurrencies(calendar) :
       CalendarChange([calendar EXCEPT
          !.selectedCurrencies = IF c \in @ THEN @ \ {c} ELSE @ \cup {c}])

\* the "Clear all" button, rendered while a currency is selected
ClearAll ==
    /\ calendar.selectedCurrencies # {}
    /\ CalendarChange([calendar EXCEPT !.selectedCurrencies = {}])

\* the oldest pending timer fires
HideTimer ==
    /\ calendar.timers # <<>>
    /\ calendar' = TimerFired(calendar)
    /\ CalendarFrame

CalendarInit ==
    /\ variant = "simple"
    /\ apiKey = FALSE
    /\ Construction
    /\ arg = <<>>
    /\ res = NoRes
    /\ conv = IdleConv
    /\ relay = IdleRelay
    /\ calendar = IdleCalendar
    /\ pairsLoad = IdleLoad
    /\ newsletter = IdleForm

CalendarNext ==
    \/ EventsLoaded
    \/ SetShowHigh
    \/ SetShowMedium
    \/ SetShowLow
    \/ ToggleCurrency
    \/ ClearAll
    \/ HideTimer

CalendarSpec == CalendarInit /\ [][CalendarNext]_vars

\* C24: when no hide timer is pending, an event is in hiddenItems if and only
\* if the current filters hide it; an event that passes the filters is then
\* rendered
C24_HiddenIffFilteredOut ==
    calendar.timers = <<>> =>
       \A i \in DOMAIN calendar.events :
          calendar.events[i].id \in calendar.hiddenItems
             <=> ~isVisible(calendar, calendar.events[i])

-----------------------------------------------------------------------------
(* Overlapping calculations, checked under Spec *)

\* C25: once every calculation started has ended, the outputs displayed are
\* those of the calculation triggered last, if it succeeded: a calculation
\* triggered earlier that ends later does not overwrite them
C25_LaterCalculationWins ==
    (started >= 1 /\ (\A i \in 1..started : Ended(calcs[i]))
        /\ Succeeded(calcs[started])) =>
       /\ riskAmount = Shown(calcs[started].riskAmt, calcs[started].cur)
       /\ pipValue = Shown(calcs[started].pipValuePerLot, calcs[started].cur)
       /\ positionSize = Shown(calcs[started].lots, Lots)

-----------------------------------------------------------------------------
(* The load of the pair list: mount, fetch, unmount, pair selection *)

LoadFrame ==
    UNCHANGED <<envVars, currency, balance, riskPercent, stopLoss, outVars, rateNote,
                calcs, started, edits, arg, res, conv, relay, calendar, newsletter>>

\* the fetch of the supported currencies has ended
FetchSettles ==
    /\ pairsLoad.pc = "fetch"
    /\ \E o \in FetchOutcomes :
          pairsLoad' = IF o.kind = "ok" THEN [pairsLoad EXCEPT !.pc = "json"]
                       ELSE LoadCatch(pairsLoad, o.message)
    /\ UNCHANGED pair
    /\ LoadFrame

\* res.json() has ended
JsonSettles ==
    /\ pairsLoad.pc = "json"
    /\ \E o \in JsonOutcomes :
          IF o.kind = "body"
          THEN \E r \in {LoadSuccess(pairsLoad, pair, o.codes)} :
                  /\ pairsLoad' = r.load
                  /\ pair' = r.pair
          ELSE /\ pairsLoad' = LoadCatch(pairsLoad, o.message)
               /\ UNCHANGED pair
    /\ LoadFrame

\* the cleanup of the effect
Unmount ==
    /\ pairsLoad.mounted
    /\ pairsLoad' = [pairsLoad EXCEPT !.mounted = FALSE, !.cancelled = TRUE]
    /\ UNCHANGED pair
    /\ LoadFrame

\* the pair select: enabled once the list is loaded and not empty, its options
\* are the pairs of the list
SelectPair ==
    /\ pairsLoad.mounted
    /\ ~pairsLoad.loadingPairs
    /\ pairsLoad.pairs # <<>>
    /\ \E p \in Range(pairsLoad.pairs) \ {pair} : pair' = p
    /\ UNCHANGED pairsLoad
    /\ LoadFrame

LoadInit ==
    /\ variant = "dynamic"
    /\ apiKey \in BOOLEAN
    /\ Construction
    /\ arg = <<>>
    /\ res = NoRes
    /\ conv = IdleConv
    /\ relay = IdleRelay
    /\ calendar = IdleCalendar
    /\ pairsLoad = IdleLoad
    /\ newsletter = IdleForm

LoadNext ==
    \/ FetchSettles
    \/ JsonSettles
    \/ Unmount
    \/ SelectPair

LoadSpec == LoadInit /\ [][LoadNext]_vars

\* C26: when the load has finished in a mounted component, loadingPairs is
\* false and the pair list is not empty
C26_LoadedListNonEmpty ==
    (pairsLoad.mounted /\ pairsLoad.pc = "done") =>
       /\ ~pairsLoad.loadingPairs
       /\ pairsLoad.pairs # <<>>

\* C27: once the load has finished with a pair list that is not empty, the
\* selected pair is one of the list, whatever codes the response held and
\* whatever the user selects afterwards
C27_SelectedPairInList ==
    (pairsLoad.mounted /\ pairsLoad.pc = "done" /\ pairsLoad.pairs # <<>>) =>
       pair \in Range(pairsLoad.pairs)

\* the response had no EUR: the list has no EURUSD and its first pair was
\* selected
C27_Witness ==
    /\ pairsLoad.mounted /\ pairsLoad.pc = "done"
    /\ pairsLoad.pairs = <<JPY \o USD, USD \o JPY>>
    /\ pair = JPY \o USD

\* C28: while the component is unmounted the load writes none of pairs, pair,
\* pairsError and loadingPairs, however its fetch ends
C28_NoWriteAfterUnmount ==
    [][~pairsLoad.mounted =>
          /\ pairsLoad'.pairs = pairsLoad.pairs
          /\ pairsLoad'.pairsError = pairsLoad.pairsError
          /\ pairsLoad'.loadingPairs = pairsLoad.loadingPairs
          /\ pair' = pair]_vars

\* the component was unmounted with the fetch in flight, and the load has ended
C28_Witness ==
    /\ ~pairsLoad.mounted
    /\ pairsLoad.pc = "done"
    /\ pairsLoad.loadingPairs
    /\ pairsLoad.pairs = <<>>

-----------------------------------------------------------------------------
(* NewsletterForm: typing, submitting, the request settling *)

FormFrame ==
    UNCHANGED <<envVars, formVars, outVars, rateNote, calcs, started, edits,
                arg, res, conv, relay, calendar, pairsLoad>>

\* the email input, disabled while a submission is under way
SetEmail ==
    /\ ~newsletter.isSubmitting
    /\ \E t \in FormEmails \ {newsletter.email} :
          newsletter' = [newsletter EXCEPT !.email = t]
    /\ FormFrame

\* the submit button, disabled while a submission is under way; the browser
\* validates the required email input first
HandleSubmit ==
    /\ ~newsletter.isSubmitting
    /\ ValidEmail(newsletter.email)
    /\ newsletter.submissions < MaxSubmits
    /\ newsletter' = FormSubmitted(newsletter)
    /\ FormFrame

\* the request in flight settles
SubmitSettles ==
    /\ newsletter.inflight # <<>>
    /\ \E reply \in RelayReplies : newsletter' = FormSettled(newsletter, reply)
    /\ FormFrame

FormInit ==
    /\ variant = "simple"
    /\ apiKey = FALSE
    /\ Construction
    /\ arg = <<>>
    /\ res = NoRes
    /\ conv = IdleConv
    /\ relay = IdleRelay
    /\ calendar = IdleCalendar
    /\ pairsLoad = IdleLoad
    /\ newsletter = IdleForm

FormNext ==
    \/ SetEmail
    \/ HandleSubmit
    \/ SubmitSettles

FormSpec == FormInit /\ [][FormNext]_vars

\* every fetch settles in the end
FormLiveSpec == FormSpec /\ WF_vars(SubmitSettles)

\* isSubmitting is true exactly while one request is in flight, and after a
\* submission has settled the status tells whether its response was ok
FormInvariant ==
    /\ Len(newsletter.inflight) <= 1
    /\ newsletter.isSubmitting <=> newsletter.inflight # <<>>
    /\ newsletter.isSubmitting => newsletter.status = "idle"
    /\ (~newsletter.isSubmitting /\ newsletter.submissions >= 1) =>
          newsletter.status = IF Ok(newsletter.reply) THEN "success" ELSE "error"

\* a step in which a request settles clears the email exactly when the
\* response was ok; a step that starts a submission leaves the email alone
FormStep ==
    /\ (newsletter.isSubmitting /\ ~newsletter'.isSubmitting) =>
          newsletter'.email = IF Ok(newsletter'.reply) THEN "" ELSE newsletter.email
    /\ newsletter'.isSubmitting => newsletter'.email = newsletter.email

\* C29: at most one subscription request is in flight and isSubmitting is true
\* from the start of a submission until its request settles; every submission
\* ends, with isSubmitting false and status success exactly when the response
\* was ok, error otherwise; the handler clears the email on success only
C29_OneSubmissionAtATime ==
    /\ []FormInvariant
    /\ [][FormStep]_vars
    /\ newsletter.isSubmitting ~> ~newsletter.isSubmitting

\* a second submission has failed after a first one had succeeded: the email
\* typed for it is still in the field
C29_Witness ==
    /\ newsletter.submissions = 2
    /\ ~newsletter.isSubmitting
    /\ newsletter.status = "error"
    /\ newsletter.reply.kind = "rejected"
    /\ newsletter.email = "bob@example.com"

-----------------------------------------------------------------------------
(* The two variants of fetchExchangeRate, checked under RateSpec *)

\* C30: for every lookup of a call of convertRate, fetchExchangeRate of the
\* dynamic variant and of the static variant give the same result on its
\* base, quote and response: the same rate, or null both
C30_VariantsAgree ==
    \A k \in DOMAIN conv.replies :
       fetchRate("dynamic", conv.reqs[k].base, conv.reqs[k].quote, conv.replies[k])
          = fetchRate("static", conv.reqs[k].base, conv.reqs[k].quote, conv.replies[k])

=============================================================================
